---- MODULE Spec2Model ----
(***************************************************************************)
(* Model of src/app.py, the Streamlit "Prompt Enhancer" script.            *)
(*                                                                         *)
(* Texts are sequences of one-character strings, so that substring search, *)
(* case folding, stripping, slicing and escaping are computed character by *)
(* character as the Python string methods compute them.  The widget values *)
(* api_key, model, role, context and task are TLA+ strings: the script     *)
(* only tests them for emptiness and concatenates them.                    *)
(*                                                                         *)
(* One run of the script is: the widgets keep their values, the button     *)
(* handler validates, calls the remote service, post-processes the text    *)
(* and renders three tabs.  The remote service is the environment: it      *)
(* answers with a text or raises.                                          *)
(***************************************************************************)
EXTENDS Integers, Sequences, FiniteSets, TLC

VARIABLES
    api_key,            \* sidebar text input (line 38)
    model,              \* sidebar selectbox (line 48)
    temperature,        \* sidebar slider, in tenths (line 55)
    max_output_chars,   \* sidebar number input (line 60)
    role,               \* text input (line 72)
    context,            \* text area (line 73)
    task,               \* text area (line 74)
    pc,                 \* where the current run of the script ended or waits
    error,              \* which st.error message the run has shown, if any
    success,            \* whether st.success was shown (line 142)
    calls,              \* outbound calls made by the current run
    remote,             \* what the remote service did with the call
    request,            \* the arguments of client.responses.create
    returned,           \* improved as assigned at line 130
    enforced,           \* improved as assigned at line 135
    improved,           \* improved after lines 136-137
    tabs                \* contents of the three st.code tabs, <<>> if none

vars == <<api_key, model, temperature, max_output_chars, role, context, task,
          pc, error, success, calls, remote, request,
          returned, enforced, improved, tabs>>

widgets == <<api_key, model, temperature, max_output_chars, role, context, task>>

-----------------------------------------------------------------------------
(* Widget ranges and defaults *)

MinChars == 400
MaxChars == 10000
DefaultChars == 2000
MinTemperature == 0
MaxTemperature == 12
DefaultTemperature == 5

ModelOptions == <<"gpt-4o-mini", "gpt-4o">>

(* Bounds of the exploration *)

MaxCharsSpan == 1       \* configured maxima MinChars .. MinChars + MaxCharsSpan
MaxShortPad == 1        \* short returned texts: padding 0 .. MaxShortPad
NearPad == 1            \* long returned texts: this close to a length limit

ApiKeys == {"", "sk-test"}
RoleValues == {"", "You are a developer."}
ContextValues == {"", "I am a beginner."}
TaskValues == {"", "Help me build an app."}
TemperatureChoices == {MinTemperature, DefaultTemperature, MaxTemperature}
MaxCharsChoices ==
    {n \in MinChars..MaxChars : n <= MinChars + MaxCharsSpan \/ n = DefaultChars}

-----------------------------------------------------------------------------
(* String constants of the script *)

ASSUMPTIONS_LINE == <<
   "B","e","f","o","r","e"," ","r","e","s","p","o","n","d","i","n","g",",",
   " ","e","x","p","l","i","c","i","t","l","y"," ","l","i","s","t"," ","a",
   "n","y"," ","a","s","s","u","m","p","t","i","o","n","s",","," ","i","d",
   "e","n","t","i","f","y"," ","m","i","s","s","i","n","g"," ","i","n","f",
   "o","r","m","a","t","i","o","n",","," ","a","n","d"," ","a","s","k"," ",
   "c","l","a","r","i","f","y","i","n","g"," ","q","u","e","s","t","i","o",
   "n","s"," ","a","s"," ","n","e","e","d","e","d","." >>

ClauseHeader == <<
   "\n","\n","A","s","s","u","m","p","t","i","o","n","s"," ","&"," ","C",
   "l","a","r","i","f","i","c","a","t","i","o","n","s",":","\n","-"," " >>

Keyword == <<"a","s","s","u","m","p","t","i","o","n">>

Ellipsis == <<".",".",".">>

XmlOpen == <<"<","e","n","h","a","n","c","e","d","P","r","o","m","p","t",">","\n">>

XmlClose == <<"\n","<","/","e","n","h","a","n","c","e","d","P","r","o","m","p","t",">">>

JsonOpen == <<"{","\n"," "," ","\"","e","n","h","a","n","c","e","d","_",
              "p","r","o","m","p","t","\"",":"," ","\"">>

JsonClose == <<"\"","\n","}">>

\* lines 85-89, with the typographic apostrophe of "user's" written in ASCII
SYSTEM_INSTRUCTIONS ==
    "You are a senior prompt engineer. Rewrite the user's Role, Context, and Task into a much more elaborate, polished, and professional instruction prompt. "
    \o "The result must be self-contained, expand upon the role, context, and task in a structured way, provide extra clarity and detail, and be more robust than the original instructions. "
    \o "Explicitly include this clause: 'Before responding, explicitly list any assumptions, identify missing information, and ask clarifying questions as needed.'. Do not answer the task - only output the improved prompt itself."

-----------------------------------------------------------------------------
(* Python string methods *)

UpperCase == <<"A","B","C","D","E","F","G","H","I","J","K","L","M",
               "N","O","P","Q","R","S","T","U","V","W","X","Y","Z">>

LowerCase == <<"a","b","c","d","e","f","g","h","i","j","k","l","m",
               "n","o","p","q","r","s","t","u","v","w","x","y","z">>

Whitespace == {" ", "\t", "\n", "\r", "\f"}

LowerChar(c) ==
    IF \E i \in 1..Len(UpperCase) : UpperCase[i] = c
    THEN LowerCase[CHOOSE i \in 1..Len(UpperCase) : UpperCase[i] = c]
    ELSE c

\* str.lower()
lower(s) == [i \in 1..Len(s) |-> LowerChar(s[i])]

\* k in s
Contains(s, k) ==
    \E i \in 1..(Len(s) - Len(k) + 1) : SubSeq(s, i, i + Len(k) - 1) = k

\* s[:n] for n >= 0
Slice(s, n) == SubSeq(s, 1, IF n < Len(s) THEN n ELSE Len(s))

\* index of the last non-whitespace character of s[lo..hi], 0 if there is none
RECURSIVE LastNonSpace(_, _, _)
LastNonSpace(s, lo, hi) ==
    IF lo > hi THEN 0
    ELSE IF lo = hi THEN (IF s[lo] \in Whitespace THEN 0 ELSE lo)
    ELSE LET mid == (lo + hi) \div 2
             r == LastNonSpace(s, mid + 1, hi)
         IN  IF r # 0 THEN r ELSE LastNonSpace(s, lo, mid)

\* str.rstrip()
rstrip(s) == SubSeq(s, 1, LastNonSpace(s, 1, Len(s)))

\* str.replace(c, r) for a one-character c
RECURSIVE Replace(_, _, _)
Replace(s, c, r) ==
    IF Len(s) = 0 THEN <<>>
    ELSE IF Len(s) = 1 THEN (IF s[1] = c THEN r ELSE s)
    ELSE LET h == Len(s) \div 2
         IN  Replace(SubSeq(s, 1, h), c, r) \o Replace(SubSeq(s, h + 1, Len(s)), c, r)

-----------------------------------------------------------------------------
(* Helpers of the script *)

\* html.escape with the ampersand replaced last instead of first
html_escape_AmpLast(s) ==
    LET s1 == Replace(s, "<", <<"&","l","t",";">>)
        s2 == Replace(s1, ">", <<"&","g","t",";">>)
        s3 == Replace(s2, "\"", <<"&","q","u","o","t",";">>)
        s4 == Replace(s3, "'", <<"&","#","x","2","7",";">>)
    IN  Replace(s4, "&", <<"&","a","m","p",";">>)

\* html.escape(s), quote=True: five replacements, the ampersand first
html_escape(s) ==
    LET s1 == Replace(s, "&", <<"&","a","m","p",";">>)
        s2 == Replace(s1, "<", <<"&","l","t",";">>)
        s3 == Replace(s2, ">", <<"&","g","t",";">>)
        s4 == Replace(s3, "\"", <<"&","q","u","o","t",";">>)
    IN  Replace(s4, "'", <<"&","#","x","2","7",";">>)

\* ensure_assumptions_clause without the test for the keyword
ensure_assumptions_clause_Always(text) ==
    IF text = <<>> THEN text
    ELSE rstrip(text) \o ClauseHeader \o ASSUMPTIONS_LINE

ensure_assumptions_clause(text) ==
    IF text = <<>> THEN text
    ELSE IF ~Contains(lower(text), Keyword)
         THEN rstrip(text) \o ClauseHeader \o ASSUMPTIONS_LINE
         ELSE text

to_xml(improved_prompt) == XmlOpen \o html_escape(improved_prompt) \o XmlClose

\* to_json given the escaped text of the XML rendering
to_json_Escaped(improved_prompt) == [enhanced_prompt |-> html_escape(improved_prompt)]

to_json(improved_prompt) == [enhanced_prompt |-> improved_prompt]

\* the truncation leaving no room for the ellipsis
Truncate_NoRoom(text, n) ==
    IF Len(text) > n THEN rstrip(Slice(text, n)) \o Ellipsis ELSE text

\* the truncation without rstrip()
Truncate_NoStrip(text, n) ==
    IF Len(text) > n THEN Slice(text, n - 3) \o Ellipsis ELSE text

\* lines 136-137
Truncate(text, n) ==
    IF Len(text) > n THEN rstrip(Slice(text, n - 3)) \o Ellipsis ELSE text

\* the escape of one character inside a JSON string, ensure_ascii=False
JsonEscapeChar(c) ==
    CASE c = "\"" -> <<"\\", "\"">>
      [] c = "\\" -> <<"\\", "\\">>
      [] c = "\n" -> <<"\\", "n">>
      [] c = "\r" -> <<"\\", "r">>
      [] c = "\t" -> <<"\\", "t">>
      [] c = "\f" -> <<"\\", "f">>
      [] OTHER -> <<c>>

RECURSIVE JsonEscape(_)
JsonEscape(s) ==
    IF Len(s) = 0 THEN <<>>
    ELSE IF Len(s) = 1 THEN JsonEscapeChar(s[1])
    ELSE LET h == Len(s) \div 2
         IN  JsonEscape(SubSeq(s, 1, h)) \o JsonEscape(SubSeq(s, h + 1, Len(s)))

\* json.dumps(obj, indent=2, ensure_ascii=False) of the one-key object
json_dumps(obj) == JsonOpen \o JsonEscape(obj.enhanced_prompt) \o JsonClose

\* the validation without the test of the three inputs
Validate_NoInputCheck(key, r, c, t) == IF key = "" THEN "nokey" ELSE ""

\* the validation without the test of the credential
Validate_NoKeyCheck(key, r, c, t) ==
    IF ~(r # "" \/ c # "" \/ t # "") THEN "noinput" ELSE ""

\* lines 111-116: which validation stops the run, "" if none does
Validate(key, r, c, t) ==
    IF key = "" THEN "nokey"
    ELSE IF ~(r # "" \/ c # "" \/ t # "") THEN "noinput"
    ELSE ""

\* line 118
base_prompt(r, c, t) == "Role: " \o r \o "\nContext: " \o c \o "\nTask: " \o t

-----------------------------------------------------------------------------
(* Texts the remote service may return *)

Pad(c, n) == [i \in 1..n |-> c]

AppendLen == Len(ClauseHeader) + Len(ASSUMPTIONS_LINE)

Prefixes == {
    <<>>,
    <<"A","S","S","U","M","P","T","I","O","N">>,
    <<"a","s","s","u","m","p","t","i","o">>,
    <<"<","a",">","&","\"","'","\\">> }

Suffixes == {
    <<>>,
    <<"A","s","s","u","m","p","t","i","o","n","s">>,
    <<"&","l","t",";","\n">> }

Fillers == {"x", " "}

PadLens ==
    (0..MaxShortPad)
    \cup ((MinChars - NearPad)..(MinChars + NearPad))
    \cup ((MinChars - AppendLen - NearPad)..(MinChars - AppendLen + NearPad))

\* every text the post-processing is explored on
ReturnedTexts ==
    {p \o Pad(f, n) \o s : p \in Prefixes, f \in Fillers, n \in PadLens, s \in Suffixes}

\* the texts the remote service returns in the exploration of the whole script
FlowTexts == {Pad(f, n) : f \in Fillers, n \in PadLens}

-----------------------------------------------------------------------------
(* The state machine *)

NoRequest == [sent |-> FALSE]

Init ==
    /\ api_key = ""
    /\ model = ModelOptions[1]
    /\ temperature = DefaultTemperature
    /\ max_output_chars = DefaultChars
    /\ role = ""
    /\ context = ""
    /\ task = ""
    /\ pc = "idle"
    /\ error = ""
    /\ success = FALSE
    /\ calls = 0
    /\ remote = "none"
    /\ request = NoRequest
    /\ returned = <<>>
    /\ enforced = <<>>
    /\ improved = <<>>
    /\ tabs = <<>>

\* A widget change reruns the script with the button not pressed: the page
\* shows the form only.
Rerun ==
    /\ pc' = "idle"
    /\ error' = ""
    /\ success' = FALSE
    /\ calls' = 0
    /\ remote' = "none"
    /\ request' = NoRequest
    /\ returned' = <<>>
    /\ enforced' = <<>>
    /\ improved' = <<>>
    /\ tabs' = <<>>

SetApiKey ==
    /\ pc # "calling"
    /\ \E k \in ApiKeys : k # api_key /\ api_key' = k
    /\ UNCHANGED <<model, temperature, max_output_chars, role, context, task>>
    /\ Rerun

SetModel ==
    /\ pc # "calling"
    /\ \E i \in 1..Len(ModelOptions) : ModelOptions[i] # model /\ model' = ModelOptions[i]
    /\ UNCHANGED <<api_key, temperature, max_output_chars, role, context, task>>
    /\ Rerun

SetTemperature ==
    /\ pc # "calling"
    /\ \E t \in TemperatureChoices : t # temperature /\ temperature' = t
    /\ UNCHANGED <<api_key, model, max_output_chars, role, context, task>>
    /\ Rerun

SetMaxChars ==
    /\ pc # "calling"
    /\ \E n \in MaxCharsChoices : n # max_output_chars /\ max_output_chars' = n
    /\ UNCHANGED <<api_key, model, temperature, role, context, task>>
    /\ Rerun

SetRole ==
    /\ pc # "calling"
    /\ \E r \in RoleValues : r # role /\ role' = r
    /\ UNCHANGED <<api_key, model, temperature, max_output_chars, context, task>>
    /\ Rerun

SetContext ==
    /\ pc # "calling"
    /\ \E c \in ContextValues : c # context /\ context' = c
    /\ UNCHANGED <<api_key, model, temperature, max_output_chars, role, task>>
    /\ Rerun

SetTask ==
    /\ pc # "calling"
    /\ \E t \in TaskValues : t # task /\ task' = t
    /\ UNCHANGED <<api_key, model, temperature, max_output_chars, role, context>>
    /\ Rerun

\* lines 120-129: the arguments of the outbound call
BuildRequest ==
    [sent |-> TRUE,
     api_key |-> api_key,
     model |-> model,
     temperature |-> temperature,
     instructions |-> SYSTEM_INSTRUCTIONS,
     input |-> base_prompt(role, context, task)]

\* The button is pressed: lines 110-129 up to the outbound call.
ClickGenerate ==
    /\ pc # "calling"
    /\ LET v == Validate(api_key, role, context, task)
       IN  IF v # ""
           THEN /\ pc' = "stopped"
                /\ error' = v
                /\ calls' = 0
                /\ remote' = "none"
                /\ request' = NoRequest
           ELSE /\ pc' = "calling"
                /\ error' = ""
                /\ calls' = 1
                /\ remote' = "pending"
                /\ request' = BuildRequest
    /\ success' = FALSE
    /\ returned' = <<>>
    /\ enforced' = <<>>
    /\ improved' = <<>>
    /\ tabs' = <<>>
    /\ UNCHANGED widgets

\* The call has returned text: lines 130 and 135-150.
Render(text) ==
    /\ LET e == ensure_assumptions_clause(text)
           final == Truncate(e, max_output_chars)
           xml_text == to_xml(final)
           json_obj == to_json(final)
       IN  /\ returned' = text
           /\ enforced' = e
           /\ improved' = final
           /\ tabs' = <<final, xml_text, json_dumps(json_obj)>>
    /\ remote' = "ok"
    /\ pc' = "rendered"
    /\ success' = TRUE
    /\ UNCHANGED <<widgets, error, calls, request>>

RemoteReturn ==
    /\ pc = "calling"
    /\ \E text \in FlowTexts : Render(text)

\* the exception handler without st.stop(): the run goes on with no text
RemoteFail_Swallow ==
    /\ pc = "calling"
    /\ remote' = "failed"
    /\ pc' = "rendered"
    /\ error' = "api"
    /\ success' = TRUE
    /\ returned' = <<>>
    /\ enforced' = <<>>
    /\ improved' = <<>>
    /\ tabs' = <<<<>>, to_xml(<<>>), json_dumps(to_json(<<>>))>>
    /\ UNCHANGED <<widgets, calls, request>>

\* The call raises: lines 131-133.
RemoteFail ==
    /\ pc = "calling"
    /\ remote' = "failed"
    /\ pc' = "stopped"
    /\ error' = "api"
    /\ UNCHANGED <<widgets, success, calls, request, returned, enforced, improved, tabs>>

Next ==
    \/ SetApiKey
    \/ SetModel
    \/ SetTemperature
    \/ SetMaxChars
    \/ SetRole
    \/ SetContext
    \/ SetTask
    \/ ClickGenerate
    \/ RemoteReturn
    \/ RemoteFail

Spec == Init /\ [][Next]_vars

-----------------------------------------------------------------------------
(* The post-processing alone: the script waits for the call it has made with *)
(* valid inputs and some configured maximum, and the call returns any text   *)
(* of ReturnedTexts.                                                         *)

InitText ==
    /\ api_key = "sk-test"
    /\ model = ModelOptions[1]
    /\ temperature = DefaultTemperature
    /\ max_output_chars \in MaxCharsChoices
    /\ role = "You are a developer."
    /\ context = ""
    /\ task = ""
    /\ pc = "calling"
    /\ error = ""
    /\ success = FALSE
    /\ calls = 1
    /\ remote = "pending"
    /\ request = BuildRequest
    /\ returned = <<>>
    /\ enforced = <<>>
    /\ improved = <<>>
    /\ tabs = <<>>

EnhanceText ==
    /\ pc = "calling"
    /\ \E text \in ReturnedTexts : Render(text)

NextText == EnhanceText

SpecText == InitText /\ [][NextText]_vars

-----------------------------------------------------------------------------
(* Reading the renderings back *)

StartsWith(s, p) == Len(p) <= Len(s) /\ SubSeq(s, 1, Len(p)) = p

EndsWith(s, p) == Len(p) <= Len(s) /\ SubSeq(s, Len(s) - Len(p) + 1, Len(s)) = p

\* the five character references of XML text and what they stand for
Entities == <<
    [ch |-> "&",  ent |-> <<"&","a","m","p",";">>],
    [ch |-> "<",  ent |-> <<"&","l","t",";">>],
    [ch |-> ">",  ent |-> <<"&","g","t",";">>],
    [ch |-> "\"", ent |-> <<"&","q","u","o","t",";">>],
    [ch |-> "'",  ent |-> <<"&","#","x","2","7",";">>] >>

\* the longest of them
MaxEntityLen == Len(Entities[4].ent)

MatchAt(b, i, e) == i + Len(e) - 1 <= Len(b) /\ SubSeq(b, i, i + Len(e) - 1) = e

\* which entity starts at position i of b, 0 if none
EntityAt(b, i) ==
    IF \E k \in 1..Len(Entities) : MatchAt(b, i, Entities[k].ent)
    THEN CHOOSE k \in 1..Len(Entities) : MatchAt(b, i, Entities[k].ent)
    ELSE 0

\* position i of b lies inside an entity that starts before i
InsideEntity(b, i) ==
    \E j \in (i - MaxEntityLen + 1)..(i - 1) :
        /\ j >= 1
        /\ EntityAt(b, j) # 0
        /\ j + Len(Entities[EntityAt(b, j)].ent) > i

\* the text an XML body stands for: every entity replaced by its character.
\* Long bodies are split at a position that starts a character or an entity.
RECURSIVE XmlUnescape(_)
XmlUnescape(b) ==
    IF Len(b) = 0 THEN <<>>
    ELSE IF Len(b) <= 2 * MaxEntityLen
    THEN LET k == EntityAt(b, 1)
         IN  IF k # 0
             THEN <<Entities[k].ch>> \o XmlUnescape(SubSeq(b, Len(Entities[k].ent) + 1, Len(b)))
             ELSE <<b[1]>> \o XmlUnescape(Tail(b))
    ELSE LET mid == Len(b) \div 2
             ok == {c \in (mid + 1)..(mid + MaxEntityLen) : ~InsideEntity(b, c)}
             cut == CHOOSE c \in ok : \A d \in ok : c <= d
         IN  XmlUnescape(SubSeq(b, 1, cut - 1)) \o XmlUnescape(SubSeq(b, cut, Len(b)))

\* the body of the one element of an XML rendering
XmlBody(x) == SubSeq(x, Len(XmlOpen) + 1, Len(x) - Len(XmlClose))

\* the character a JSON escape \x stands for
JsonDecodeChar(x) ==
    CASE x = "n" -> "\n"
      [] x = "r" -> "\r"
      [] x = "t" -> "\t"
      [] x = "f" -> "\f"
      [] OTHER -> x

JsonSplitWindow == 8

\* the text a JSON string body stands for.  Long bodies are split after a
\* character that is not a backslash, where an escape cannot be cut in two.
RECURSIVE JsonUnescape(_)
JsonUnescape(b) ==
    LET mid == Len(b) \div 2
        ok == {c \in (mid + 1)..(mid + JsonSplitWindow) : c <= Len(b) /\ b[c - 1] # "\\"}
    IN  IF Len(b) = 0 THEN <<>>
        ELSE IF Len(b) <= 2 * JsonSplitWindow \/ ok = {}
        THEN IF b[1] = "\\" /\ Len(b) >= 2
             THEN <<JsonDecodeChar(b[2])>> \o JsonUnescape(SubSeq(b, 3, Len(b)))
             ELSE <<b[1]>> \o JsonUnescape(Tail(b))
        ELSE LET cut == CHOOSE c \in ok : \A d \in ok : c <= d
             IN  JsonUnescape(SubSeq(b, 1, cut - 1)) \o JsonUnescape(SubSeq(b, cut, Len(b)))

\* the number of backslashes right before position i of b
BackslashRun(b, i) ==
    CHOOSE k \in 0..(i - 1) :
        /\ \A j \in (i - k)..(i - 1) : b[j] = "\\"
        /\ (i - k - 1 >= 1 => b[i - k - 1] # "\\")

\* the body of the string value of a JSON rendering
JsonBody(j) == SubSeq(j, Len(JsonOpen) + 1, Len(j) - Len(JsonClose))

Shown == pc = "rendered"

Truncated == Shown /\ Len(enforced) > max_output_chars

-----------------------------------------------------------------------------
(* Properties *)

NoInputs == role = "" /\ context = "" /\ task = ""

\* C1: a submit with an empty credential, or with role, context and task all
\* empty, is refused: the run stops with an error message, no call to the
\* remote service is made and nothing is rendered.
C1_Refused ==
    (pc # "idle" /\ (api_key = "" \/ NoInputs)) =>
        /\ pc = "stopped"
        /\ error \in {"nokey", "noinput"}
        /\ calls = 0
        /\ remote = "none"
        /\ ~request.sent
        /\ ~success
        /\ tabs = <<>>

C1_Witness == pc = "stopped" /\ error = "noinput" /\ api_key # "" /\ NoInputs

\* C2: a returned text without "assumption" (in any letter case) gets the
\* clause appended; a returned text with it is left unmodified.
C2_ClauseEnforced ==
    Shown =>
        IF ~Contains(lower(returned), Keyword)
        THEN /\ enforced # returned
             /\ StartsWith(enforced, rstrip(returned))
             /\ EndsWith(enforced, ASSUMPTIONS_LINE)
        ELSE enforced = returned

\* C3: the enhanced prompt that is rendered is never longer than the
\* configured maximum.
C3_LengthBound ==
    Shown => /\ Len(improved) <= max_output_chars
             /\ Len(tabs[1]) <= max_output_chars

C3_Witness == Truncated /\ Len(tabs[1]) = max_output_chars

\* C4 as claimed: whenever truncation occurs the result ends with "..." and
\* is exactly as long as the configured maximum.
C4_ExactLength ==
    Truncated => /\ EndsWith(improved, Ellipsis)
                 /\ Len(improved) = max_output_chars

\* C4 as amended: whenever truncation occurs the result ends with "..." and
\* is at most as long as the configured maximum; it is exactly that long when
\* the last character kept of the clause-enforced text (the one at position
\* maximum - 3) is not whitespace, and shorter when it is whitespace.
C4_TruncatedShape ==
    Truncated =>
        /\ EndsWith(improved, Ellipsis)
        /\ Len(improved) <= max_output_chars
        /\ IF enforced[max_output_chars - 3] \in Whitespace
           THEN Len(improved) < max_output_chars
           ELSE Len(improved) = max_output_chars

C4_Witness == Truncated /\ Len(improved) < max_output_chars

\* C5: after a failure of the remote call the run has stopped with the one
\* error message, shows no success message and no output, and has made the
\* one call only.
C5_FailureSurfaced ==
    remote = "failed" =>
        /\ pc = "stopped"
        /\ error = "api"
        /\ ~success
        /\ tabs = <<>>
        /\ calls = 1

C5_Witness == remote = "failed" /\ error = "api" /\ request.sent

\* C6: every enhanced prompt that is rendered contains the assumptions
\* clause.
C6_AlwaysClause == Shown => Contains(tabs[1], ASSUMPTIONS_LINE)

\* C7: the JSON rendering is the object with the one key enhanced_prompt
\* whose string value reads back as the final enhanced prompt, the text of
\* the plain rendering and the text the XML rendering wraps.
C7_JsonValue ==
    Shown =>
        LET body == JsonBody(tabs[3])
        IN  /\ tabs[1] = improved
            /\ StartsWith(tabs[3], JsonOpen)
            /\ EndsWith(tabs[3], JsonClose)
            /\ Len(tabs[3]) >= Len(JsonOpen) + Len(JsonClose)
            /\ \A i \in 1..Len(body) :
                   body[i] = "\"" => BackslashRun(body, i) % 2 = 1
            /\ JsonUnescape(body) = improved
            /\ XmlUnescape(XmlBody(tabs[2])) = JsonUnescape(body)

C7_Witness ==
    /\ Shown
    /\ improved # returned
    /\ \E i \in 1..Len(improved) : improved[i] = "\""
    /\ \E i \in 1..Len(improved) : improved[i] = "\n"

\* C8: the XML rendering is the one element enhancedPrompt around a body
\* that has no raw markup character, in which every ampersand starts a
\* character reference, and that unescapes to the text.
C8_XmlEscaped ==
    Shown =>
        LET body == XmlBody(tabs[2])
        IN  /\ StartsWith(tabs[2], XmlOpen)
            /\ EndsWith(tabs[2], XmlClose)
            /\ Len(tabs[2]) >= Len(XmlOpen) + Len(XmlClose)
            /\ \A i \in 1..Len(body) :
                   /\ body[i] \notin {"<", ">", "\"", "'"}
                   /\ body[i] = "&" => EntityAt(body, i) # 0
            /\ XmlUnescape(body) = improved

C8_Witness ==
    /\ Shown
    /\ \A c \in {"&", "<", ">", "\"", "'"} :
           \E i \in 1..Len(improved) : improved[i] = c

\* C9: a run makes at most one outbound call, only when both validations
\* pass, and renders results only once that call has returned successfully.
C9_OneCallThenRender ==
    /\ calls <= 1
    /\ calls = 1 <=> remote # "none"
    /\ calls = 1 => (api_key # "" /\ ~NoInputs /\ request.sent)
    /\ (tabs # <<>> \/ success) => (remote = "ok" /\ calls = 1 /\ Shown)
    /\ remote \in {"pending", "failed"} => (tabs = <<>> /\ ~success)

C9_Witness == Shown /\ remote = "ok" /\ calls = 1 /\ Len(tabs) = 3

====
